---- MODULE Spec2Model ----
(***************************************************************************)
(* Model of email_qc_bot.py: one run of main() over the drafts found in    *)
(* emails/, with the remote text-generation service, the file system and   *)
(* the webhook as the environment.  File names are sequences of one-       *)
(* character strings so that Path.stem, the glob filter and the            *)
(* identifier derivation are computed as the code computes them.           *)
(***************************************************************************)
EXTENDS Integers, Sequences, FiniteSets, TLC

VARIABLES
    csvExists,     \* EVENT_CSV.exists()
    csvIds,        \* the event_id column of events.csv
    dirExists,     \* EMAIL_DIR.exists()
    dirFiles,      \* names of the files directly inside emails/
    webhook,       \* os.getenv("SLACK_WEBHOOK_URL"): "unset", "" or a URL
    pc,            \* position of the run inside main()
    error,         \* the uncaught exception that ended the run, or "none"
    events,        \* main: events
    email_files,   \* main: email_files
    idx,           \* index in email_files of the loop variable f (0 before the loop)
    f,             \* main: f (the current draft's file name)
    event_id,      \* main: event_id
    report,        \* main: report (the parsed reply)
    overall,       \* main: overall
    dirAccessed,   \* whether gather_emails has looked at emails/
    llmCalls,      \* requests sent to the remote service, with the reply received
    reportWrites,  \* write_text calls on report files, in order
    reports,       \* content of reports/: file name -> text written
    printed,       \* lines printed on the terminal
    posts          \* requests.post calls

vars == <<csvExists, csvIds, dirExists, dirFiles, webhook, pc, error, events,
          email_files, idx, f, event_id, report, overall, dirAccessed,
          llmCalls, reportWrites, reports, printed, posts>>

\* ---------------------------------------------------------------- bounds
MaxDrafts == 3      \* most files in emails/
MaxStem == 3        \* longest generated name body for the identifier check

\* ------------------------------------------------------------ file names
MdExt == <<".", "m", "d">>
TxtExt == <<".", "t", "x", "t">>
ReportSuffix == <<"_", "r", "e", "p", "o", "r", "t", ".", "j", "s", "o", "n">>

A1md == <<"a", "_", "1">> \o MdExt
A1txt == <<"a", "_", "1">> \o TxtExt
Bmd == <<"b">> \o MdExt
C2txt == <<"c", "_", "2">> \o TxtExt
A3pdf == <<"a", "_", "3", ".", "p", "d", "f">>

\* files that may lie in emails/
DirUniverse == {A1md, A1txt, Bmd, C2txt, A3pdf}

\* identifiers that may appear in events.csv
IdUniverse == {<<"a">>, <<"b">>}

EndsWith(s, suffix) ==
    /\ Len(s) >= Len(suffix)
    /\ SubSeq(s, Len(s) - Len(suffix) + 1, Len(s)) = suffix

\* str.rfind, 1-based; 0 when the character does not occur
RFind(s, ch) ==
    IF \E i \in 1..Len(s) : s[i] = ch
    THEN CHOOSE i \in 1..Len(s) : s[i] = ch /\ \A j \in (i+1)..Len(s) : s[j] # ch
    ELSE 0

\* PurePath.stem: the name up to its last dot, unless that dot is the first
\* or the last character
Stem(name) ==
    LET i == RFind(name, ".")
    IN IF 1 < i /\ i < Len(name) THEN SubSeq(name, 1, i - 1) ELSE name

\* a split at the LAST separator (rsplit), as a slip in the code would make it
RECURSIVE SplitLast(_, _)
SplitLast(s, sep) ==
    IF s = <<>> THEN <<>>
    ELSE IF s[Len(s)] = sep THEN SubSeq(s, 1, Len(s) - 1)
    ELSE IF \E i \in 1..Len(s) : s[i] = sep THEN SplitLast(SubSeq(s, 1, Len(s) - 1), sep)
    ELSE s

\* str.split(sep, 1)[0]: scan to the first separator
RECURSIVE SplitFirst(_, _)
SplitFirst(s, sep) ==
    IF s = <<>> THEN <<>>
    ELSE IF Head(s) = sep THEN <<>>
    ELSE <<Head(s)>> \o SplitFirst(Tail(s), sep)

extract_event_id(filename) == SplitFirst(Stem(filename), "_")

report_path(file) == Stem(file) \o ReportSuffix

\* Path.glob("*.md") / Path.glob("*.txt") on the directory's entries
Glob(files, ext) == {n \in files : EndsWith(n, ext)}

\* the orders in which a glob may list a set of files
Orderings(S) ==
    {s \in [1..Cardinality(S) -> S] : \A i, j \in 1..Cardinality(S) : i # j => s[i] # s[j]}

\* list(glob("*.md")) + list(glob("*.txt"))
gather_result(files) ==
    {m \o t : m \in Orderings(Glob(files, MdExt)), t \in Orderings(Glob(files, TxtExt))}

\* ----------------------------------------------------------- JSON values
\* a parsed JSON value below the top level: its type, its text when it is a
\* string, and its Python len() when it has one
JStr(str, len) == [t |-> "str", s |-> str, n |-> len]
JList(len) == [t |-> "list", s |-> "", n |-> len]
JNum(digits) == [t |-> "num", s |-> digits, n |-> 0]
JNull == [t |-> "null", s |-> "", n |-> 0]

\* a parsed top-level value: a dict (a record of JSON values) or something else
JObj(fields) == [t |-> "dict", fields |-> fields]
JArray == [t |-> "list", fields |-> <<>>]

FullReport(errs, warns, light) ==
    JObj([errors |-> errs, warnings |-> warns, traffic_light |-> light])

\* texts the remote service may return as message content
Contents == {"green", "green_pretty", "red", "purple", "no_light", "extra_key",
             "light_is_list", "light_is_null", "errors_is_number", "array",
             "prose"}

\* json.loads(content): the parsed value, or a JSONDecodeError
json_loads(content) ==
    CASE content = "green" ->
            [ok |-> TRUE, value |-> FullReport(JList(0), JList(0), JStr("GREEN", 5))]
      [] content = "green_pretty" ->
            [ok |-> TRUE, value |-> FullReport(JList(0), JList(0), JStr("GREEN", 5))]
      [] content = "red" ->
            [ok |-> TRUE, value |-> FullReport(JList(2), JList(1), JStr("RED", 3))]
      [] content = "purple" ->
            [ok |-> TRUE, value |-> FullReport(JList(0), JList(1), JStr("PURPLE", 6))]
      [] content = "no_light" ->
            [ok |-> TRUE, value |-> JObj([errors |-> JList(1)])]
      [] content = "extra_key" ->
            [ok |-> TRUE, value |-> JObj([errors |-> JList(0), warnings |-> JList(0),
                                          traffic_light |-> JStr("YELLOW", 6),
                                          notes |-> JStr("ok", 2)])]
      [] content = "light_is_list" ->
            [ok |-> TRUE, value |-> FullReport(JList(0), JList(0), JList(1))]
      [] content = "light_is_null" ->
            [ok |-> TRUE, value |-> FullReport(JList(0), JList(0), JNull)]
      [] content = "errors_is_number" ->
            [ok |-> TRUE, value |-> FullReport(JNum("2"), JList(0), JStr("RED", 3))]
      [] content = "array" ->
            [ok |-> TRUE, value |-> JArray]
      [] OTHER ->
            [ok |-> FALSE, value |-> JArray]

\* a writer that keeps only the three expected keys of a dict reply
json_dumps_expected_keys(value) ==
    [format |-> "indent=2",
     json |-> IF value.t = "dict"
              THEN JObj([k \in DOMAIN value.fields \cap {"errors", "warnings", "traffic_light"}
                           |-> value.fields[k]])
              ELSE value]

\* json.dumps(report, indent=2): the text written to the report file
json_dumps(value) == [format |-> "indent=2", json |-> value]

\* reading a report file back as JSON
ParseReportText(text) == text.json

\* dict.get(key, default)
DictGet(obj, key, default) ==
    IF key \in DOMAIN obj.fields THEN obj.fields[key] ELSE default

Hashable(v) == v.t \notin {"list", "dict"}
Sized(v) == v.t \in {"list", "str", "dict"}

\* str(value) as an f-string renders it
PyStr(v) ==
    CASE v.t = "str" -> v.s
      [] v.t = "null" -> "None"
      [] v.t = "num" -> v.s
      [] OTHER -> "<repr>"

\* termcolor.colored(text, colour)
colored(text, colour) == [text |-> text, colour |-> colour]

KnownLights == {"GREEN", "YELLOW", "RED"}

\* colour_light: the dictionary lookup with the light itself as default
colour_light(light) ==
    IF light.t = "str" /\ light.s \in KnownLights
    THEN colored(light.s, CASE light.s = "GREEN" -> "green"
                            [] light.s = "YELLOW" -> "yellow"
                            [] OTHER -> "red")
    ELSE [text |-> PyStr(light), colour |-> "plain"]

\* a digest that loses its first entry
summary_lines_off_by_one(pairs) ==
    [i \in 1..(Len(pairs) - 1) |-> [name |-> pairs[i + 1][1], light |-> PyStr(pairs[i + 1][2])]]

\* the digest text of main: header line, then "\n".join(summary_lines)
summary_lines(pairs) ==
    [i \in 1..Len(pairs) |-> [name |-> pairs[i][1], light |-> PyStr(pairs[i][2])]]

Truthy(envValue) == envValue \notin {"unset", ""}

\* ------------------------------------------------------------- the run
NoReport == JArray
DefaultLight == JStr("?", 1)

\* where a run that has not started stands
Fresh ==
    /\ pc = "start"
    /\ error = "none"
    /\ events = <<>>
    /\ email_files = <<>>
    /\ idx = 0
    /\ f = <<>>
    /\ event_id = <<>>
    /\ report = NoReport
    /\ overall = <<>>
    /\ dirAccessed = FALSE
    /\ llmCalls = <<>>
    /\ reportWrites = <<>>
    /\ reports = <<>>
    /\ printed = <<>>
    /\ posts = <<>>

Init ==
    /\ csvExists \in BOOLEAN
    /\ csvIds \in (IF csvExists THEN SUBSET IdUniverse ELSE {{}})
    /\ dirExists \in BOOLEAN
    /\ dirFiles \in (IF dirExists
                     THEN {S \in SUBSET DirUniverse : Cardinality(S) <= MaxDrafts}
                     ELSE {{}})
    /\ webhook \in {"unset", "", "https://hooks.example/T1"}
    /\ Fresh

Raise(exc) ==
    /\ pc' = "aborted"
    /\ error' = exc

\* a loader that treats a missing events.csv as an empty table
load_events_unchecked ==
    /\ pc = "start"
    /\ events' = [id \in csvIds |-> [event_id |-> id]]
    /\ pc' = "gather"
    /\ UNCHANGED <<csvExists, csvIds, dirExists, dirFiles, webhook, error, email_files,
                   idx, f, event_id, report, overall, dirAccessed, llmCalls,
                   reportWrites, reports, printed, posts>>

\* load_events, called first by main
load_events ==
    /\ pc = "start"
    /\ IF ~csvExists
       THEN /\ Raise("FileNotFoundError: events.csv")
            /\ UNCHANGED events
       ELSE /\ events' = [id \in csvIds |-> [event_id |-> id]]
            /\ pc' = "gather"
            /\ UNCHANGED error
    /\ UNCHANGED <<csvExists, csvIds, dirExists, dirFiles, webhook, email_files,
                   idx, f, event_id, report, overall, dirAccessed, llmCalls,
                   reportWrites, reports, printed, posts>>

\* gather_emails, then overall = []
gather_emails ==
    /\ pc = "gather"
    /\ dirAccessed' = TRUE
    /\ IF ~dirExists
       THEN /\ Raise("FileNotFoundError: emails/")
            /\ UNCHANGED email_files
       ELSE /\ email_files' \in gather_result(dirFiles)
            /\ pc' = "for"
            /\ UNCHANGED error
    /\ UNCHANGED <<csvExists, csvIds, dirExists, dirFiles, webhook, events,
                   idx, f, event_id, report, overall, llmCalls,
                   reportWrites, reports, printed, posts>>

\* the loop takes the next file and derives its identifier
NextDraft ==
    /\ pc = "for"
    /\ idx < Len(email_files)
    /\ idx' = idx + 1
    /\ f' = email_files[idx + 1]
    /\ event_id' = extract_event_id(email_files[idx + 1])
    /\ pc' = "lookup"
    /\ UNCHANGED <<csvExists, csvIds, dirExists, dirFiles, webhook, error, events,
                   email_files, report, overall, dirAccessed, llmCalls,
                   reportWrites, reports, printed, posts>>

\* a loop without the membership test: events[event_id] raises KeyError
SkipDraft_KeyError ==
    /\ pc = "lookup"
    /\ event_id \notin DOMAIN events
    /\ Raise("KeyError")
    /\ UNCHANGED <<csvExists, csvIds, dirExists, dirFiles, webhook, events,
                   email_files, idx, f, event_id, report, overall, dirAccessed,
                   llmCalls, reportWrites, reports, printed, posts>>

\* event_id not in events: print the notice and continue
SkipDraft ==
    /\ pc = "lookup"
    /\ event_id \notin DOMAIN events
    /\ printed' = Append(printed, [kind |-> "skip", name |-> f,
                                   light |-> colored("[SKIP]", "red"),
                                   errors |-> 0, warnings |-> 0])
    /\ pc' = "for"
    /\ UNCHANGED <<csvExists, csvIds, dirExists, dirFiles, webhook, error, events,
                   email_files, idx, f, event_id, report, overall, dirAccessed,
                   llmCalls, reportWrites, reports, posts>>

\* a call_llm wrapped in try/except that moves on to the next draft
call_llm_swallow ==
    /\ pc = "lookup"
    /\ event_id \in DOMAIN events
    /\ \E content \in Contents :
          /\ llmCalls' = Append(llmCalls, [file |-> f, event |-> events[event_id],
                                           content |-> content])
          /\ IF json_loads(content).ok
             THEN /\ report' = json_loads(content).value
                  /\ pc' = "write"
             ELSE /\ pc' = "for"
                  /\ UNCHANGED report
    /\ UNCHANGED <<csvExists, csvIds, dirExists, dirFiles, webhook, error, events,
                   email_files, idx, f, event_id, overall, dirAccessed,
                   reportWrites, reports, printed, posts>>

\* read the draft and call_llm: one request, the reply parsed as JSON
call_llm ==
    /\ pc = "lookup"
    /\ event_id \in DOMAIN events
    /\ \E content \in Contents :
          /\ llmCalls' = Append(llmCalls, [file |-> f, event |-> events[event_id],
                                           content |-> content])
          /\ IF json_loads(content).ok
             THEN /\ report' = json_loads(content).value
                  /\ pc' = "write"
                  /\ UNCHANGED error
             ELSE /\ Raise("JSONDecodeError")
                  /\ UNCHANGED report
    /\ UNCHANGED <<csvExists, csvIds, dirExists, dirFiles, webhook, events,
                   email_files, idx, f, event_id, overall, dirAccessed,
                   reportWrites, reports, printed, posts>>

\* report_path.write_text(json.dumps(report, indent=2))
write_report ==
    /\ pc = "write"
    /\ reports' = (report_path(f) :> json_dumps(report)) @@ reports
    /\ reportWrites' = Append(reportWrites, [file |-> f, path |-> report_path(f),
                                             text |-> json_dumps(report)])
    /\ pc' = "summary"
    /\ UNCHANGED <<csvExists, csvIds, dirExists, dirFiles, webhook, error, events,
                   email_files, idx, f, event_id, report, overall, dirAccessed,
                   llmCalls, printed, posts>>

\* the exception the summary lines raise on this report, if any
SummaryError(rep) ==
    IF rep.t # "dict" THEN "AttributeError"
    ELSE IF \/ ~Hashable(DictGet(rep, "traffic_light", DefaultLight))
            \/ ~Sized(DictGet(rep, "errors", JList(0)))
            \/ ~Sized(DictGet(rep, "warnings", JList(0)))
         THEN "TypeError"
         ELSE "none"

\* a summary that aggregates only the drafts that are not GREEN
cli_summary_problems_only ==
    /\ pc = "summary"
    /\ IF SummaryError(report) # "none"
       THEN /\ Raise(SummaryError(report))
            /\ UNCHANGED <<printed, overall>>
       ELSE LET tl == DictGet(report, "traffic_light", DefaultLight)
            IN /\ printed' = Append(printed,
                      [kind |-> "summary", name |-> f, light |-> colour_light(tl),
                       errors |-> DictGet(report, "errors", JList(0)).n,
                       warnings |-> DictGet(report, "warnings", JList(0)).n])
               /\ overall' = IF tl = JStr("GREEN", 5) THEN overall
                             ELSE Append(overall, <<f, tl>>)
               /\ pc' = "for"
               /\ UNCHANGED error
    /\ UNCHANGED <<csvExists, csvIds, dirExists, dirFiles, webhook, events,
                   email_files, idx, f, event_id, report, dirAccessed,
                   llmCalls, reportWrites, reports, posts>>

\* tl = report.get(...); print the summary line; overall.append((f.name, tl))
cli_summary ==
    /\ pc = "summary"
    /\ IF SummaryError(report) # "none"
       THEN /\ Raise(SummaryError(report))
            /\ UNCHANGED <<printed, overall>>
       ELSE LET tl == DictGet(report, "traffic_light", DefaultLight)
            IN /\ printed' = Append(printed,
                      [kind |-> "summary", name |-> f, light |-> colour_light(tl),
                       errors |-> DictGet(report, "errors", JList(0)).n,
                       warnings |-> DictGet(report, "warnings", JList(0)).n])
               /\ overall' = Append(overall, <<f, tl>>)
               /\ pc' = "for"
               /\ UNCHANGED error
    /\ UNCHANGED <<csvExists, csvIds, dirExists, dirFiles, webhook, events,
                   email_files, idx, f, event_id, report, dirAccessed,
                   llmCalls, reportWrites, reports, posts>>

\* send_slack: post unless the webhook variable is unset or empty
send_slack(message) ==
    IF ~Truthy(webhook)
    THEN posts' = posts
    ELSE posts' = Append(posts, [url |-> webhook, text |-> message])

\* a Slack summary that is sent only when some draft was processed
slack_summary_if_any ==
    /\ pc = "for"
    /\ idx = Len(email_files)
    /\ IF Truthy(webhook) /\ overall # <<>>
       THEN send_slack([header |-> "QC Summary", lines |-> summary_lines(overall)])
       ELSE UNCHANGED posts
    /\ pc' = "done"
    /\ UNCHANGED <<csvExists, csvIds, dirExists, dirFiles, webhook, error, events,
                   email_files, idx, f, event_id, report, overall, dirAccessed,
                   llmCalls, reportWrites, reports, printed>>

\* after the loop: the Slack summary
slack_summary ==
    /\ pc = "for"
    /\ idx = Len(email_files)
    /\ IF Truthy(webhook)
       THEN send_slack([header |-> "QC Summary", lines |-> summary_lines(overall)])
       ELSE UNCHANGED posts
    /\ pc' = "done"
    /\ UNCHANGED <<csvExists, csvIds, dirExists, dirFiles, webhook, error, events,
                   email_files, idx, f, event_id, report, overall, dirAccessed,
                   llmCalls, reportWrites, reports, printed>>

Next ==
    \/ load_events
    \/ gather_emails
    \/ NextDraft
    \/ SkipDraft
    \/ call_llm
    \/ write_report
    \/ cli_summary
    \/ slack_summary

Spec == Init /\ [][Next]_vars

\* ------------------------------------------ identifier derivation alone
NameChars == {"a", "_", "."}

RECURSIVE SeqsUpTo(_, _)
SeqsUpTo(S, n) ==
    IF n = 0 THEN {<<>>}
    ELSE LET shorter == SeqsUpTo(S, n - 1)
         IN shorter \cup {Append(s, c) : s \in shorter, c \in S}

Evt23InviteMd ==
    <<"E", "V", "T", "2", "3", "_", "i", "n", "v", "i", "t", "e", "_", "v", "1">> \o MdExt
NoUnderscoreTxt ==
    <<"n", "o", "U", "n", "d", "e", "r", "s", "c", "o", "r", "e">> \o TxtExt

\* draft file names handed to extract_event_id
IdInputs ==
    {body \o ext : body \in SeqsUpTo(NameChars, MaxStem), ext \in {MdExt, TxtExt}}
        \cup {Evt23InviteMd, NoUnderscoreTxt}

InitId ==
    /\ csvExists = TRUE
    /\ csvIds = {}
    /\ dirExists = TRUE
    /\ dirFiles = {}
    /\ webhook = "unset"
    /\ pc = "id_input"
    /\ error = "none"
    /\ events = <<>>
    /\ email_files = <<>>
    /\ idx = 0
    /\ f \in IdInputs
    /\ event_id = <<>>
    /\ report = NoReport
    /\ overall = <<>>
    /\ dirAccessed = FALSE
    /\ llmCalls = <<>>
    /\ reportWrites = <<>>
    /\ reports = <<>>
    /\ printed = <<>>
    /\ posts = <<>>

\* event_id = extract_event_id(f)
ExtractId ==
    /\ pc = "id_input"
    /\ event_id' = extract_event_id(f)
    /\ pc' = "id_done"
    /\ UNCHANGED <<csvExists, csvIds, dirExists, dirFiles, webhook, error, events,
                   email_files, idx, f, report, overall, dirAccessed, llmCalls,
                   reportWrites, reports, printed, posts>>

NextId == ExtractId

SpecId == InitId /\ [][NextId]_vars

\* ------------------------------------------------------------------ C9
HasUnderscore(s) == \E i \in 1..Len(s) : s[i] = "_"
IsPrefix(p, s) == Len(p) <= Len(s) /\ SubSeq(s, 1, Len(p)) = p

\* the file name without its ".md" / ".txt" extension (a name that is nothing
\* but a dot and the letters has no extension)
WithoutExtension(name) ==
    LET extLen == IF EndsWith(name, MdExt) THEN 3 ELSE 4
    IN IF Len(name) > extLen THEN SubSeq(name, 1, Len(name) - extLen) ELSE name

\* C9: the identifier derived from a draft's file name is the name without its
\* extension cut at the first underscore, the whole stem when it has none; it
\* holds no underscore and is a prefix of the stem ("EVT23_invite_v1.md" gives
\* "EVT23", "noUnderscore.txt" gives "noUnderscore").
C9_ExtractEventId ==
    pc \in {"id_done", "lookup"} =>
        LET stem == WithoutExtension(f)
        IN /\ ~HasUnderscore(event_id)
           /\ IsPrefix(event_id, stem)
           /\ (Len(event_id) < Len(stem) => stem[Len(event_id) + 1] = "_")
           /\ (~HasUnderscore(stem) => event_id = stem)
           /\ (f = Evt23InviteMd => event_id = <<"E", "V", "T", "2", "3">>)
           /\ (f = NoUnderscoreTxt =>
                 event_id = <<"n", "o", "U", "n", "d", "e", "r", "s", "c", "o", "r", "e">>)

C9_Witness ==
    /\ pc = "id_done"
    /\ f = Evt23InviteMd
    /\ event_id = <<"E", "V", "T", "2", "3">>

\* ------------------------------------------------- shared vocabulary
Matched(name) == extract_event_id(name) \in DOMAIN events
Recognised(name) == EndsWith(name, MdExt) \/ EndsWith(name, TxtExt)
Configured == webhook \notin {"unset", ""}

CallsFor(name) == {i \in 1..Len(llmCalls) : llmCalls[i].file = name}
WritesFor(name) == {i \in 1..Len(reportWrites) : reportWrites[i].file = name}
EntriesFor(name) == {i \in 1..Len(overall) : overall[i][1] = name}
SkipsFor(name) == {i \in 1..Len(printed) : printed[i].kind = "skip" /\ printed[i].name = name}

Parses(content) == json_loads(content).ok

\* the directory content a sequence of write_text calls leaves behind
RECURSIVE DiskAfter(_)
DiskAfter(writes) ==
    IF writes = <<>> THEN <<>>
    ELSE LET last == writes[Len(writes)]
         IN (last.path :> last.text) @@ DiskAfter(SubSeq(writes, 1, Len(writes) - 1))

\* ------------------------------------------------------------------ C1
\* C1: a draft whose identifier is not a key of the event mapping gets no
\* remote call, no report file and no summary entry, does not abort the run,
\* and the drafts after it are still handled; every draft that reaches
\* call_llm has an identifier present in the mapping.
C1_UnmatchedSkipped ==
    /\ \A i \in 1..Len(llmCalls) :
          extract_event_id(llmCalls[i].file) \in {r.event_id : r \in {events[k] : k \in DOMAIN events}}
    /\ \A j \in 1..Len(email_files) :
          ~Matched(email_files[j]) =>
              /\ CallsFor(email_files[j]) = {}
              /\ WritesFor(email_files[j]) = {}
              /\ (report_path(email_files[j]) \in DOMAIN reports =>
                    \E k \in 1..Len(email_files) :
                        Matched(email_files[k]) /\ WritesFor(email_files[k]) # {})
              /\ EntriesFor(email_files[j]) = {}
              /\ ~(pc = "aborted" /\ idx = j)
              /\ (j < idx => Cardinality(SkipsFor(email_files[j])) = 1)
    /\ pc = "done" =>
          /\ idx = Len(email_files)
          /\ \A j \in 1..Len(email_files) :
                Matched(email_files[j]) => Cardinality(CallsFor(email_files[j])) = 1

C1_Witness ==
    /\ pc = "done"
    /\ \E j, k \in 1..Len(email_files) :
          /\ j < k
          /\ ~Matched(email_files[j])
          /\ SkipsFor(email_files[j]) # {}
          /\ Matched(email_files[k])
          /\ WritesFor(email_files[k]) # {}

\* ------------------------------------------------------------------ C3
\* C3: with events.csv missing the run aborts with the missing-source-file
\* error before emails/ is looked at; with events.csv or emails/ missing the
\* run aborts before any draft is processed: no remote call, no report file,
\* no webhook request.
C3_MissingInputsAbort ==
    /\ ~csvExists =>
          /\ ~dirAccessed
          /\ pc \in {"start", "aborted"}
          /\ (pc = "aborted" => error = "FileNotFoundError: events.csv")
    /\ (~csvExists \/ ~dirExists) =>
          /\ pc \in {"start", "gather", "aborted"}
          /\ (pc = "aborted" => error \in {"FileNotFoundError: events.csv",
                                           "FileNotFoundError: emails/"})
          /\ idx = 0
          /\ llmCalls = <<>>
          /\ reportWrites = <<>>
          /\ reports = <<>>
          /\ posts = <<>>

C3_Witness ==
    /\ pc = "aborted"
    /\ ~csvExists
    /\ dirExists
    /\ dirFiles # {}
    /\ Configured

\* ------------------------------------------------------------------ C4
\* C4: a reply that is not valid JSON ends the run at that draft: no report
\* is written for the draft, no later draft is processed, no webhook request
\* is sent even with a webhook configured, and the reports written for the
\* earlier drafts stay on disk as written.
C4_BadReplyStopsRun ==
    \A i \in 1..Len(llmCalls) :
        ~Parses(llmCalls[i].content) =>
            /\ i = Len(llmCalls)
            /\ pc = "aborted"
            /\ error = "JSONDecodeError"
            /\ email_files[idx] = llmCalls[i].file
            /\ WritesFor(llmCalls[i].file) = {}
            /\ Len(reportWrites) = i - 1
            /\ \A w \in 1..Len(reportWrites) :
                  /\ reportWrites[w].file = llmCalls[w].file
                  /\ ParseReportText(reportWrites[w].text) = json_loads(llmCalls[w].content).value
            /\ reports = DiskAfter(reportWrites)
            /\ posts = <<>>

C4_Witness ==
    /\ error = "JSONDecodeError"
    /\ Len(reportWrites) >= 1
    /\ DOMAIN reports # {}
    /\ Configured
    /\ idx < Len(email_files)

\* ------------------------------------------------------------------ C2
ExpectedKeys == {"errors", "warnings", "traffic_light"}
HasExactlyExpectedKeys(value) == value.t = "dict" /\ DOMAIN value.fields = ExpectedKeys

\* whether the draft of the i-th remote call is still between its call and
\* its write_text
AwaitingWrite(i) == i = Len(llmCalls) /\ pc = "write"

\* C2 as stated: every reply that parses as JSON leaves a report file holding
\* a JSON object with exactly the keys errors, warnings and traffic_light.
C2_AsStated ==
    \A i \in 1..Len(llmCalls) :
        (Parses(llmCalls[i].content) /\ ~AwaitingWrite(i)) =>
            LET path == WithoutExtension(llmCalls[i].file) \o ReportSuffix
            IN /\ path \in DOMAIN reports
               /\ HasExactlyExpectedKeys(ParseReportText(reports[path]))

\* C2, amended: every reply that parses as JSON leaves the report file
\* <draft-stem>_report.json holding the parsed reply as received; the file
\* has exactly the three keys only when the reply itself is an object with
\* exactly those keys.
C2_ReportHoldsReply ==
    \A i \in 1..Len(llmCalls) :
        (Parses(llmCalls[i].content) /\ ~AwaitingWrite(i)) =>
            LET path == WithoutExtension(llmCalls[i].file) \o ReportSuffix
                reply == json_loads(llmCalls[i].content).value
            IN /\ i <= Len(reportWrites)
               /\ reportWrites[i].file = llmCalls[i].file
               /\ reportWrites[i].path = path
               /\ ParseReportText(reportWrites[i].text) = reply
               /\ path \in DOMAIN reports
               /\ ((\A w \in (i+1)..Len(reportWrites) : reportWrites[w].path # path) =>
                     /\ ParseReportText(reports[path]) = reply
                     /\ (HasExactlyExpectedKeys(ParseReportText(reports[path]))
                           <=> HasExactlyExpectedKeys(reply)))

C2_Witness ==
    \E i \in 1..Len(reportWrites) :
        /\ llmCalls[i].content = "no_light"
        /\ reportWrites[i].path \in DOMAIN reports
        /\ ~HasExactlyExpectedKeys(ParseReportText(reports[reportWrites[i].path]))
        /\ pc = "done"

\* ------------------------------------------------------------------ C5
\* the traffic light of the i-th written report, as line 120 reads it
LightOfWrite(i) ==
    DictGet(ParseReportText(reportWrites[i].text), "traffic_light", DefaultLight)

\* C5: in a run no draft aborts, a configured webhook gets exactly one POST,
\* sent only after the last draft has been handled, whose digest has one
\* line per processed draft (file name and traffic light) in processing
\* order; without a configured webhook no POST is sent.
C5_OneDigestAfterLoop ==
    /\ Len(posts) <= 1
    /\ posts # <<>> =>
          /\ Configured
          /\ pc = "done"
          /\ idx = Len(email_files)
          /\ posts[1].url = webhook
    /\ pc = "done" =>
          IF Configured
          THEN /\ Len(posts) = 1
               /\ Len(posts[1].text.lines) = Len(llmCalls)
               /\ Len(reportWrites) = Len(llmCalls)
               /\ \A i \in 1..Len(llmCalls) :
                     /\ posts[1].text.lines[i].name = llmCalls[i].file
                     /\ posts[1].text.lines[i].light = PyStr(LightOfWrite(i))
               /\ \A i, j \in 1..Len(llmCalls) :
                     i < j => \E a, b \in 1..Len(email_files) :
                                 /\ a < b
                                 /\ email_files[a] = llmCalls[i].file
                                 /\ email_files[b] = llmCalls[j].file
          ELSE posts = <<>>

C5_Witness ==
    /\ pc = "done"
    /\ Len(posts) = 1
    /\ Len(posts[1].text.lines) >= 2
    /\ posts[1].text.lines[1].light # posts[1].text.lines[2].light
    /\ \E j \in 1..Len(email_files) : ~Matched(email_files[j])

\* ------------------------------------------------------------------ C6
\* C6: with emails/ present but holding no recognised draft, the run ends
\* without error, makes no remote call, writes no report and, with a webhook
\* configured, sends one message whose digest body is empty.
C6_EmptyDirectory ==
    (csvExists /\ dirExists /\ \A n \in dirFiles : ~Recognised(n)) =>
        /\ pc # "aborted"
        /\ error = "none"
        /\ llmCalls = <<>>
        /\ reportWrites = <<>>
        /\ reports = <<>>
        /\ pc = "done" =>
              IF Configured
              THEN /\ Len(posts) = 1
                   /\ posts[1].text.lines = <<>>
              ELSE posts = <<>>

C6_Witness ==
    /\ pc = "done"
    /\ dirFiles = {A3pdf}
    /\ csvIds = IdUniverse
    /\ Len(posts) = 1
    /\ posts[1].text.lines = <<>>

\* ------------------------------------------------------------------ C7
IsKnownLight(v) == v.t = "str" /\ v.s \in KnownLights

\* C7: a traffic_light value outside GREEN, YELLOW, RED reaches the report,
\* the summary line and the digest entry unchanged, and never aborts the run.
C7_UnknownLightPassedThrough ==
    \A w \in 1..Len(reportWrites) :
        LET rep == ParseReportText(reportWrites[w].text)
        IN (/\ rep.t = "dict"
            /\ "traffic_light" \in DOMAIN rep.fields
            /\ ~IsKnownLight(rep.fields.traffic_light)
            /\ ~(w = Len(reportWrites) /\ pc = "summary")) =>
               /\ ~(pc = "aborted" /\ w = Len(reportWrites))
               /\ w <= Len(overall)
               /\ overall[w] = <<reportWrites[w].file, rep.fields.traffic_light>>
               /\ \E i \in 1..Len(printed) :
                     /\ printed[i].kind = "summary"
                     /\ printed[i].name = reportWrites[w].file
                     /\ printed[i].light.text = PyStr(rep.fields.traffic_light)

\* ------------------------------------------------------------------ C8
\* C8: after a completed run the output directory holds one report file per
\* processed draft, each holding the reply obtained for its own draft.
C8_OneReportPerDraft ==
    pc = "done" =>
        /\ Cardinality(DOMAIN reports) = Len(overall)
        /\ \A i \in 1..Len(llmCalls) :
              LET path == WithoutExtension(llmCalls[i].file) \o ReportSuffix
              IN /\ path \in DOMAIN reports
                 /\ ParseReportText(reports[path]) = json_loads(llmCalls[i].content).value

\* ----------------------------------------------------------------- C10
MatchedDrafts == {j \in 1..Len(email_files) : Matched(email_files[j])}

\* C10: drafts are handled one at a time in one forward pass: one remote call
\* per processed draft and never a second one, the next call only after the
\* current draft's report is written, its line printed and its pair appended;
\* in a completed run the calls, the report writes and the summary entries
\* all number as many as the matched drafts.
C10_OneAtATime ==
    /\ \A i, j \in 1..Len(llmCalls) : i # j => llmCalls[i].file # llmCalls[j].file
    /\ Len(llmCalls) <= Len(overall) + 1
    /\ Len(reportWrites) <= Len(llmCalls)
    /\ Len(overall) <= Len(reportWrites)
    /\ \A i \in 1..Len(reportWrites) : reportWrites[i].file = llmCalls[i].file
    /\ \A i \in 1..Len(overall) :
          /\ overall[i][1] = reportWrites[i].file
          /\ Cardinality({k \in 1..Len(printed) :
                             printed[k].kind = "summary" /\ printed[k].name = overall[i][1]}) = 1
    /\ pc \in {"for", "lookup", "done"} =>
          /\ Len(llmCalls) = Len(reportWrites)
          /\ Len(reportWrites) = Len(overall)
    /\ pc = "write" => (Len(reportWrites) = Len(llmCalls) - 1 /\ llmCalls[Len(llmCalls)].file = f)
    /\ pc = "summary" => (Len(overall) = Len(reportWrites) - 1 /\ Len(reportWrites) = Len(llmCalls))
    /\ \A i \in 1..Len(llmCalls) :
          \E j \in 1..idx : email_files[j] = llmCalls[i].file
    /\ pc = "done" =>
          /\ Len(llmCalls) = Cardinality(MatchedDrafts)
          /\ Len(reportWrites) = Cardinality(MatchedDrafts)
          /\ Len(overall) = Cardinality(MatchedDrafts)

C10_Witness ==
    /\ pc = "done"
    /\ Cardinality(MatchedDrafts) >= 2
    /\ Len(llmCalls) = Cardinality(MatchedDrafts)
    /\ Cardinality(MatchedDrafts) < Len(email_files)
====
